---- MODULE Spec2Model ----
(***************************************************************************)
(* Highlight synchronisation of the scripture reader.                      *)
(*                                                                         *)
(* One browser session of the signed-in user is modelled in full: the      *)
(* React state of HighlightProvider (needsSync, isSyncing,                 *)
(* localHighlights), the reader's own list highlightedWords, and every     *)
(* asynchronous handler the reader and the Navbar start against the        *)
(* document store.  A handler runs to its next await in one step; the      *)
(* values it read from its render closure (isSyncing, localHighlights,     *)
(* user) are kept in the record of the suspended call, because the code    *)
(* after an await still sees the closure of the render that created the    *)
(* handler.  Another session of the same user appears through its storage  *)
(* writes and the events it sends over the relay.  The socket of the       *)
(* session connects, drops and delivers the events of other sessions; what *)
(* a step sends to the relay is kept in the record of the step.            *)
(***************************************************************************)
EXTENDS Integers, Sequences, FiniteSets, TLC

\* ------------------------------------------------------------------ bounds
MaxIds == 4
MaxLocal == 2
MaxInflight == 2
MaxEvents == 3
MaxPeerSaves == 1
MaxRelayed == 1
MaxWords == 3

\* ------------------------------------------------------------- vocabulary
Verses == {"V1", "V2"}
VerseOrder == <<"V1", "V2">>
Colors == {"#FFEB3B", "#C5E1A5"}
\* the reader's selectedColor, left at the value useState gives it
selectedColor == "#FFEB3B"
Uid == "U1"
OtherUid == "U2"
NoUser == "none"
NoId == 0
\* the token boundaries of a verse's text a selection can start or end at
Positions == {2, 5, 8, 10}

\* the selections the user makes: verse, index at mouse down, index at mouse up
Selections ==
  { <<"V1", 2, 8>>, <<"V1", 10, 5>>, <<"V1", 5, 5>>, <<"V2", 5, 8>> }

Hl(id, v, s, e, c, u) ==
  [id |-> id, verseId |-> v, startIndex |-> s, endIndex |-> e, color |-> c, userId |-> u]

NoH == Hl(NoId, "none", 0, 0, "none", "none")

VARIABLES
  user,              \* useFirebase().user: NoUser or Uid
  needsSync,         \* HighlightProvider state
  isSyncing,         \* HighlightProvider state
  localHighlights,   \* HighlightProvider state: verseId -> sequence of highlights
  highlightedWords,  \* ScriptureReader state: flat sequence of highlights
  selectedHighlight, \* ScriptureReader state: highlight of the open colour popup, or NoH
  storage,           \* the 'highlights' collection: set of documents
  nextId,            \* next document id doc(highlightsRef) generates
  loadState,       \* loadHighlights: "idle", "pending" (awaiting getDocs), "done", "failed"
  persists,          \* suspended saveHighlights calls (reader and Navbar)
  deletes,           \* suspended deleteHighlight calls awaiting deleteDoc
  updates,           \* suspended updateHighlightColor calls awaiting updateDoc
  peer,              \* the other session's saveHighlights call
  peerSaves,         \* number of saves the other session has started
  gestures,          \* number of user gestures and remote events so far
  isConnected,       \* ScriptureReader state: the socket reported 'connect' last
  received,          \* the highlight events the socket has delivered so far
  reloads,           \* number of times the page has been loaded again
  last,              \* the operation performed by the last step
  sockets,           \* server.js: the sockets connected to the relay
  connectedUsers,    \* server.js: the Map socket id -> user id
  inbox,             \* per socket, the events the relay has emitted to it
  lastRelay,         \* the event the relay handled last
  words,             \* renderVerseText: the lengths of the tokens of the verse
  currentPosition,   \* renderVerseText: the index after the last token rendered
  shown              \* renderVerseText: per token rendered, its range and highlight

vars == <<user, needsSync, isSyncing, localHighlights, highlightedWords,
          selectedHighlight, storage, nextId, loadState, persists, deletes,
          updates, peer, peerSaves, gestures, isConnected, received, reloads,
          last, sockets, connectedUsers, inbox, lastRelay, words,
          currentPosition, shown>>

\* the state of the relay process and the state of one rendering of a verse
relayVars == <<sockets, connectedUsers, inbox, lastRelay>>
renderVars == <<words, currentPosition, shown>>
clientVars == <<user, needsSync, isSyncing, localHighlights, highlightedWords,
                selectedHighlight, storage, nextId, loadState, persists,
                deletes, updates, peer, peerSaves, gestures, isConnected,
                received, reloads, last>>

\* the socket ids the relay sees
SocketIds == {"s1", "s2", "s3"}

NoData ==
  [verseId |-> "none", startIndex |-> 0, endIndex |-> 0, color |-> "none",
   userId |-> "none"]

\* the record of a relay step: the event, the socket it came from, its payload
RelayStep(op, s, data) == [op |-> op, socket |-> s, data |-> data]

\* the relay after server.js has started: it listens, no socket is connected
RelayStart ==
  /\ sockets = {}
  /\ connectedUsers = [s \in {} |-> "none"]
  /\ inbox = [s \in SocketIds |-> <<>>]
  /\ lastRelay = RelayStep("listen", "none", NoData)

\* no verse is being rendered
NothingRendered ==
  /\ words = <<>>
  /\ currentPosition = 0
  /\ shown = <<>>

\* ---------------------------------------------------------------- helpers
Range(s) == {s[i] : i \in 1..Len(s)}

RemoveAt(s, i) == SubSeq(s, 1, i - 1) \o SubSeq(s, i + 1, Len(s))

RECURSIVE SetToSeq(_)
SetToSeq(S) ==
  IF S = {} THEN <<>>
  ELSE LET x == CHOOSE y \in S : \A z \in S : y.id <= z.id
       IN <<x>> \o SetToSeq(S \ {x})

EmptyMap == [v \in Verses |-> <<>>]

\* grouping of a flat list by verseId
Group(hw) == [v \in Verses |-> SelectSeq(hw, LAMBDA h : h.verseId = v)]

\* Object.values(localHighlights).flat()
RECURSIVE FlatFrom(_, _)
FlatFrom(lh, k) ==
  IF k > Len(VerseOrder) THEN <<>> ELSE lh[VerseOrder[k]] \o FlatFrom(lh, k + 1)

Flat(lh) == FlatFrom(lh, 1)

\* the effect that regroups highlightedWords into localHighlights; it runs
\* after a render in which highlightedWords changed
RegroupEffect(lh, hw) == IF Len(hw) > 0 THEN Group(hw) ELSE lh

\* the documents a query where('userId', '==', uid) returns
\* a query without the where clause
AllDocs(st, uid) == st

UserDocs(st, uid) == {d \in st : d.userId = uid}

Ids(S) == {d.id : d \in S}

\* what a document or highlight says, without its identity
Content(h) == <<h.verseId, h.startIndex, h.endIndex, h.color>>

\* the record of a step: the operation, the kind of saveHighlights call it
\* belongs to, the highlight it is about and the events it sent to the relay
Step(op, p, h) == [op |-> op, kind |-> p.kind, h |-> h, emitted |-> <<>>]

NoP == [kind |-> "none", pc |-> "none", all |-> <<>>, existing |-> {},
        ids |-> <<>>, uid |-> NoUser, origin |-> NoH]

\* the render closure a handler captures
Closure == [user |-> user, isSyncing |-> isSyncing, all |-> Flat(localHighlights)]

\* ------------------------------------------------------------------- Init
StoredAtStart ==
  { Hl(1, "V1", 0, 2, "#FFEB3B", Uid),
    Hl(2, "V2", 1, 2, "#C5E1A5", OtherUid) }

Init ==
  /\ user = NoUser
  /\ needsSync = FALSE
  /\ isSyncing = FALSE
  /\ localHighlights = EmptyMap
  /\ highlightedWords = <<>>
  /\ selectedHighlight = NoH
  /\ storage \in SUBSET StoredAtStart
  /\ nextId = 3
  /\ loadState = "idle"
  /\ persists = <<>>
  /\ deletes = <<>>
  /\ updates = <<>>
  /\ peer = NoP
  /\ peerSaves = 0
  /\ gestures = 0
  /\ isConnected = FALSE
  /\ received = {}
  /\ reloads = 0
  /\ last = Step("init", NoP, NoH)
  /\ RelayStart
  /\ NothingRendered

\* ------------------------------------------------------- sign-in and load
\* the user signs in, ScriptureReader mounts and loadHighlights awaits getDocs
SignIn ==
  /\ user = NoUser
  /\ user' = Uid
  /\ loadState' = "pending"
  /\ last' = Step("signIn", NoP, NoH)
  /\ UNCHANGED <<isConnected, received, reloads>>
  /\ UNCHANGED <<relayVars, renderVars>>
  /\ UNCHANGED <<needsSync, isSyncing, localHighlights, highlightedWords,
                 selectedHighlight, storage, nextId, persists, deletes,
                 updates, peer, peerSaves, gestures>>

LoadOk ==
  /\ loadState = "pending"
  /\ LET saved == SetToSeq(UserDocs(storage, Uid))
     IN /\ highlightedWords' = saved
        /\ localHighlights' = Group(saved)
  /\ needsSync' = FALSE
  /\ loadState' = "done"
  /\ last' = Step("loadOk", NoP, NoH)
  /\ UNCHANGED <<isConnected, received, reloads>>
  /\ UNCHANGED <<relayVars, renderVars>>
  /\ UNCHANGED <<user, isSyncing, selectedHighlight, storage, nextId,
                 persists, deletes, updates, peer, peerSaves, gestures>>

LoadFail ==
  /\ loadState = "pending"
  /\ loadState' = "failed"
  /\ last' = Step("loadFail", NoP, NoH)
  /\ UNCHANGED <<isConnected, received, reloads>>
  /\ UNCHANGED <<relayVars, renderVars>>
  /\ UNCHANGED <<user, needsSync, isSyncing, localHighlights, highlightedWords,
                 selectedHighlight, storage, nextId, persists, deletes,
                 updates, peer, peerSaves, gestures>>

\* the page is loaded again: every component state starts from its useState
\* value and the socket of the old page is gone.  A call the old page left
\* suspended has either reached the store or not, which are its own Ok and
\* Fail steps taken before this one.
Reload ==
  /\ user # NoUser
  /\ loadState # "pending"
  /\ Len(persists) = 0 /\ Len(deletes) = 0 /\ Len(updates) = 0
  /\ gestures < MaxEvents
  /\ gestures' = gestures + 1
  /\ user' = NoUser
  /\ needsSync' = FALSE
  /\ isSyncing' = FALSE
  /\ localHighlights' = EmptyMap
  /\ highlightedWords' = <<>>
  /\ selectedHighlight' = NoH
  /\ isConnected' = FALSE
  /\ loadState' = "idle"
  /\ reloads' = reloads + 1
  /\ last' = Step("reload", NoP, NoH)
  /\ UNCHANGED <<relayVars, renderVars>>
  /\ UNCHANGED <<storage, nextId, persists, deletes, updates, peer, peerSaves,
                 received>>

\* ------------------------------------------------------------ local edits
\* a filter that keeps only what lies strictly apart from the new range
KeepsOnUpsertApart(h, start, end) == h.endIndex < start \/ h.startIndex > end

\* the filter of handleMouseUp: the highlights the new range [start, end) keeps
KeepsOnUpsert(h, start, end) == h.startIndex < start \/ h.endIndex > end

\* an edit that leaves the flag as it finds it
MarkDirtyKeeps == needsSync

\* the value setNeedsSync(true) of an edit gives needsSync
MarkDirty == TRUE

\* a test that lets an empty range through
ValidRangeInclusive(start, end) == end >= start

\* the test of handleMouseUp on the normalized selection
ValidRange(start, end) == end > start

\* an object that carries the id field as well
PayloadWithId(h) == h

\* the object handleMouseUp builds and sends: it has no id
Payload(h) ==
  [verseId |-> h.verseId, startIndex |-> h.startIndex, endIndex |-> h.endIndex,
   color |-> h.color, userId |-> h.userId]

\* a start that is the index at mouse down
MinIsFirst(a, b) == a

Min(a, b) == IF a < b THEN a ELSE b
Max(a, b) == IF a > b THEN a ELSE b

\* mouse up after a selection on verse v that went down at a and moved to b
handleMouseUp(v, a, b) ==
  /\ user # NoUser
  /\ LET start == Min(a, b)
         end == Max(a, b)
         newHighlight == Hl(NoId, v, start, end, selectedColor, user)
         hw == SelectSeq(highlightedWords,
                 LAMBDA h : h.verseId # v \/ KeepsOnUpsert(h, start, end))
                 \o <<newHighlight>>
         lh == [localHighlights EXCEPT ![v] =
                 SelectSeq(@, LAMBDA h : KeepsOnUpsert(h, start, end))
                 \o <<newHighlight>>]
     IN IF ValidRange(start, end)
        THEN /\ Len(hw) <= MaxLocal
             /\ highlightedWords' = hw
             /\ localHighlights' = RegroupEffect(lh, hw)
             /\ needsSync' = MarkDirty
             /\ last' = [Step("upsert", NoP, newHighlight) EXCEPT
                           !.emitted =
                             IF isConnected
                             THEN <<[event |-> "highlight",
                                     data |-> Payload(newHighlight)]>>
                             ELSE <<>>]
        ELSE /\ UNCHANGED <<highlightedWords, localHighlights, needsSync>>
             /\ last' = Step("noSelection", NoP, newHighlight)
  /\ gestures < MaxEvents
  /\ gestures' = gestures + 1
  /\ UNCHANGED <<isConnected, received, reloads>>
  /\ UNCHANGED <<relayVars, renderVars>>
  /\ UNCHANGED <<user, isSyncing, selectedHighlight, storage, nextId,
                 loadState, persists, deletes, updates, peer, peerSaves>>

\* ------------------------------------------------- saveHighlights (reader)
\* a finally block that leaves the flag as it finds it
FinallyKeepsSyncing == isSyncing

\* the value the finally block of saveHighlights gives isSyncing
Finally == FALSE


\* the synchronous head of the reader's saveHighlights, run with the render
\* closure cl of the handler that calls it; origin is the highlight whose
\* deletion made the call.  ns is needsSync as the caller has set it.
saveHighlights(cl, origin, ns) ==
  IF cl.user = NoUser \/ cl.isSyncing
  THEN /\ needsSync' = ns
       /\ UNCHANGED <<isSyncing, persists>>
  ELSE IF Len(cl.all) = 0
  THEN /\ needsSync' = FALSE
       /\ isSyncing' = Finally
       /\ UNCHANGED persists
  ELSE /\ Len(persists) < MaxInflight
       /\ needsSync' = ns
       /\ isSyncing' = TRUE
       /\ persists' = Append(persists,
            [kind |-> "reader", pc |-> "read", all |-> cl.all, existing |-> {},
             ids |-> <<>>, uid |-> cl.user, origin |-> origin])

\* the Navbar's Save Highlights button: shown while needsSync, disabled while
\* isSyncing; its handler awaits getDocs first
navbarSaveHighlights ==
  /\ user # NoUser
  /\ gestures < MaxEvents
  /\ gestures' = gestures + 1
  /\ needsSync
  /\ ~isSyncing
  /\ Len(persists) < MaxInflight
  /\ isSyncing' = TRUE
  /\ persists' = Append(persists,
       [kind |-> "navbar", pc |-> "read", all |-> Flat(localHighlights),
        existing |-> {}, ids |-> <<>>, uid |-> user, origin |-> NoH])
  /\ last' = Step("navbarSave", NoP, NoH)
  /\ UNCHANGED <<isConnected, received, reloads>>
  /\ UNCHANGED <<relayVars, renderVars>>
  /\ UNCHANGED <<user, needsSync, localHighlights, highlightedWords,
                 selectedHighlight, storage, nextId, loadState, deletes,
                 updates, peer, peerSaves>>

\* getDocs of a saveHighlights call resolves: the batch is built (a delete for
\* every document read, a set under a fresh id for every highlight of the
\* closure) and the call awaits batch.commit()
PersistReadOk(i) ==
  /\ i \in 1..Len(persists)
  /\ persists[i].pc = "read"
  /\ LET p == persists[i]
         n == Len(p.all)
     IN /\ nextId + n - 1 <= MaxIds
        /\ persists' = [persists EXCEPT ![i] =
             [p EXCEPT !.pc = "commit",
                       !.existing = Ids(UserDocs(storage, p.uid)),
                       !.ids = [k \in 1..n |-> nextId + k - 1]]]
        /\ nextId' = nextId + n
  /\ last' = Step("readOk", NoP, NoH)
  /\ UNCHANGED <<isConnected, received, reloads>>
  /\ UNCHANGED <<relayVars, renderVars>>
  /\ UNCHANGED <<user, needsSync, isSyncing, localHighlights, highlightedWords,
                 selectedHighlight, storage, loadState, deletes, updates,
                 peer, peerSaves, gestures>>

\* a catch block that clears the dirty flag
PersistFailClearsDirty(i) ==
  /\ i \in 1..Len(persists)
  /\ isSyncing' = Finally
  /\ needsSync' = FALSE
  /\ persists' = RemoveAt(persists, i)
  /\ last' = Step(IF persists[i].pc = "read" THEN "readFail" ELSE "commitFail",
                  persists[i], persists[i].origin)
  /\ UNCHANGED <<isConnected, received, reloads>>
  /\ UNCHANGED <<relayVars, renderVars>>
  /\ UNCHANGED <<user, localHighlights, highlightedWords, selectedHighlight,
                 storage, nextId, loadState, deletes, updates, peer,
                 peerSaves, gestures>>

\* getDocs or batch.commit() rejects: catch logs, finally clears isSyncing
PersistFail(i) ==
  /\ i \in 1..Len(persists)
  /\ isSyncing' = Finally
  /\ persists' = RemoveAt(persists, i)
  /\ last' = Step(IF persists[i].pc = "read" THEN "readFail" ELSE "commitFail",
                  persists[i], persists[i].origin)
  /\ UNCHANGED <<isConnected, received, reloads>>
  /\ UNCHANGED <<relayVars, renderVars>>
  /\ UNCHANGED <<user, needsSync, localHighlights, highlightedWords,
                 selectedHighlight, storage, nextId, loadState, deletes,
                 updates, peer, peerSaves, gestures>>

\* the documents a batch sets
NewDocs(p) ==
  { Hl(p.ids[k], p.all[k].verseId, p.all[k].startIndex, p.all[k].endIndex,
       p.all[k].color, p.uid) : k \in 1..Len(p.all) }

\* the store after a batch commits: deleting a document that is gone is no error
Committed(st, p) == {d \in st : d.id \notin p.existing} \cup NewDocs(p)

\* updatedHighlights of the reader's saveHighlights
UpdatedHighlights(p) ==
  [k \in 1..Len(p.all) |->
     Hl(p.ids[k], p.all[k].verseId, p.all[k].startIndex, p.all[k].endIndex,
        p.all[k].color, p.uid)]

\* batch.commit() resolves
PersistCommitOk(i) ==
  /\ i \in 1..Len(persists)
  /\ persists[i].pc = "commit"
  /\ LET p == persists[i]
     IN /\ storage' = Committed(storage, p)
        /\ IF p.kind = "reader"
           THEN /\ highlightedWords' = UpdatedHighlights(p)
                /\ localHighlights' =
                     RegroupEffect(localHighlights, UpdatedHighlights(p))
           ELSE UNCHANGED <<highlightedWords, localHighlights>>
        /\ last' = Step("commitOk", p, p.origin)
  /\ needsSync' = FALSE
  /\ isSyncing' = Finally
  /\ persists' = RemoveAt(persists, i)
  /\ UNCHANGED <<isConnected, received, reloads>>
  /\ UNCHANGED <<relayVars, renderVars>>
  /\ UNCHANGED <<user, selectedHighlight, nextId, loadState, deletes,
                 updates, peer, peerSaves, gestures>>

\* ---------------------------------------------------------- deleteHighlight
\* a comparison by document id
SameRangeById(h, g) == h.id = g.id

\* the comparison deleteHighlight and updateHighlightColor find their target by
SameRange(h, g) == h.startIndex = g.startIndex /\ h.endIndex = g.endIndex

\* the delete button of a rendered highlight.  The call of saveHighlights at
\* its end is the saveHighlights of the render that drew the button, so it
\* runs with that render's isSyncing and localHighlights (Closure), both
\* when it follows directly and when it follows the await of deleteDoc.
deleteHighlight(h) ==
  /\ user # NoUser
  /\ gestures < MaxEvents
  /\ gestures' = gestures + 1
  /\ h \in Range(highlightedWords)
  /\ LET hw == SelectSeq(highlightedWords,
                 LAMBDA g : g.verseId # h.verseId \/ ~SameRange(g, h))
         lh == [localHighlights EXCEPT ![h.verseId] =
                 SelectSeq(@, LAMBDA g : ~SameRange(g, h))]
     IN /\ highlightedWords' = hw
        /\ localHighlights' = RegroupEffect(lh, hw)
  /\ IF h.id # NoId
     THEN /\ deletes' = Append(deletes, [h |-> h, cl |-> Closure])
          /\ needsSync' = MarkDirty
          /\ UNCHANGED <<isSyncing, persists>>
     ELSE /\ saveHighlights(Closure, h, MarkDirty)
          /\ UNCHANGED deletes
  /\ last' = Step("delete", NoP, h)
  /\ UNCHANGED <<isConnected, received, reloads>>
  /\ UNCHANGED <<relayVars, renderVars>>
  /\ UNCHANGED <<user, selectedHighlight, storage, nextId, loadState,
                 updates, peer, peerSaves>>

\* deleteDoc resolves and deleteHighlight goes on to call saveHighlights
DeleteDocOk(i) ==
  /\ i \in 1..Len(deletes)
  /\ storage' = {d \in storage : d.id # deletes[i].h.id}
  /\ saveHighlights(deletes[i].cl, deletes[i].h, needsSync)
  /\ deletes' = RemoveAt(deletes, i)
  /\ last' = Step("deleteDocOk", NoP, deletes[i].h)
  /\ UNCHANGED <<isConnected, received, reloads>>
  /\ UNCHANGED <<relayVars, renderVars>>
  /\ UNCHANGED <<user, localHighlights, highlightedWords, selectedHighlight,
                 nextId, loadState, updates, peer, peerSaves, gestures>>

\* deleteDoc rejects: the catch logs and saveHighlights is not called
DeleteDocFail(i) ==
  /\ i \in 1..Len(deletes)
  /\ deletes' = RemoveAt(deletes, i)
  /\ last' = Step("deleteDocFail", NoP, deletes[i].h)
  /\ UNCHANGED <<isConnected, received, reloads>>
  /\ UNCHANGED <<relayVars, renderVars>>
  /\ UNCHANGED <<user, needsSync, isSyncing, localHighlights, highlightedWords,
                 selectedHighlight, storage, nextId, loadState, persists,
                 updates, peer, peerSaves, gestures>>

\* ------------------------------------------------------ updateHighlightColor
\* the colour button of a rendered highlight opens the popup
handleColorPickerClick(h) ==
  /\ user # NoUser
  /\ h \in Range(highlightedWords)
  /\ gestures < MaxEvents
  /\ gestures' = gestures + 1
  /\ selectedHighlight' = h
  /\ last' = Step("pick", NoP, h)
  /\ UNCHANGED <<isConnected, received, reloads>>
  /\ UNCHANGED <<relayVars, renderVars>>
  /\ UNCHANGED <<user, needsSync, isSyncing, localHighlights, highlightedWords,
                 storage, nextId, loadState, persists, deletes, updates,
                 peer, peerSaves>>

Recolor(h, g, newColor) ==
  IF SameRange(g, h) THEN [g EXCEPT !.color = newColor] ELSE g

\* a colour of the popup is clicked
updateHighlightColor(newColor) ==
  /\ user # NoUser
  /\ selectedHighlight # NoH
  /\ gestures < MaxEvents
  /\ gestures' = gestures + 1
  /\ LET h == selectedHighlight
         hw == [k \in 1..Len(highlightedWords) |->
                  IF highlightedWords[k].verseId = h.verseId
                  THEN Recolor(h, highlightedWords[k], newColor)
                  ELSE highlightedWords[k]]
         lh == [localHighlights EXCEPT ![h.verseId] =
                  [k \in 1..Len(@) |-> Recolor(h, @[k], newColor)]]
     IN /\ highlightedWords' = hw
        /\ localHighlights' = RegroupEffect(lh, hw)
        /\ needsSync' = MarkDirty
        /\ IF h.id # NoId
           THEN /\ updates' = Append(updates, [id |-> h.id, color |-> newColor])
                /\ UNCHANGED selectedHighlight
           ELSE /\ selectedHighlight' = NoH
                /\ UNCHANGED updates
        /\ last' = Step("recolor", NoP, h)
  /\ UNCHANGED <<isConnected, received, reloads>>
  /\ UNCHANGED <<relayVars, renderVars>>
  /\ UNCHANGED <<user, isSyncing, storage, nextId, loadState, persists,
                 deletes, peer, peerSaves>>

\* the popup's close button
closePopup ==
  /\ selectedHighlight # NoH
  /\ selectedHighlight' = NoH
  /\ last' = Step("closePopup", NoP, NoH)
  /\ UNCHANGED <<isConnected, received, reloads>>
  /\ UNCHANGED <<relayVars, renderVars>>
  /\ UNCHANGED <<user, needsSync, isSyncing, localHighlights, highlightedWords,
                 storage, nextId, loadState, persists, deletes, updates,
                 peer, peerSaves, gestures>>

\* updateDoc resolves; it rejects when the document no longer exists
UpdateDocOk(i) ==
  /\ i \in 1..Len(updates)
  /\ \E d \in storage : d.id = updates[i].id
  /\ storage' = { IF d.id = updates[i].id
                  THEN [d EXCEPT !.color = updates[i].color] ELSE d : d \in storage }
  /\ selectedHighlight' = NoH
  /\ updates' = RemoveAt(updates, i)
  /\ last' = Step("updateDocOk", NoP, NoH)
  /\ UNCHANGED <<isConnected, received, reloads>>
  /\ UNCHANGED <<relayVars, renderVars>>
  /\ UNCHANGED <<user, needsSync, isSyncing, localHighlights, highlightedWords,
                 nextId, loadState, persists, deletes, peer, peerSaves,
                 gestures>>

UpdateDocFail(i) ==
  /\ i \in 1..Len(updates)
  /\ updates' = RemoveAt(updates, i)
  /\ last' = Step("updateDocFail", NoP, NoH)
  /\ UNCHANGED <<isConnected, received, reloads>>
  /\ UNCHANGED <<relayVars, renderVars>>
  /\ UNCHANGED <<user, needsSync, isSyncing, localHighlights, highlightedWords,
                 selectedHighlight, storage, nextId, loadState, persists,
                 deletes, peer, peerSaves, gestures>>

\* ------------------------------------------------- the propagation channel
\* socketConnection.on('connect'); the socket exists once the user is known
\* and connects again by itself after a drop
onConnect ==
  /\ user # NoUser
  /\ ~isConnected
  /\ gestures < MaxEvents
  /\ gestures' = gestures + 1
  /\ isConnected' = TRUE
  /\ last' = [Step("connect", NoP, NoH) EXCEPT
                !.emitted = <<[event |-> "auth", data |-> [userId |-> user]]>>]
  /\ UNCHANGED <<relayVars, renderVars>>
  /\ UNCHANGED <<user, needsSync, isSyncing, localHighlights, highlightedWords,
                 selectedHighlight, storage, nextId, loadState, persists,
                 deletes, updates, peer, peerSaves, received, reloads>>

\* a handler that takes the drop for a reset of the dirty flag
onDisconnectClearsDirty ==
  /\ user # NoUser
  /\ isConnected
  /\ gestures < MaxEvents
  /\ gestures' = gestures + 1
  /\ isConnected' = FALSE
  /\ needsSync' = FALSE
  /\ last' = Step("disconnect", NoP, NoH)
  /\ UNCHANGED <<relayVars, renderVars>>
  /\ UNCHANGED <<user, isSyncing, localHighlights, highlightedWords,
                 selectedHighlight, storage, nextId, loadState, persists,
                 deletes, updates, peer, peerSaves, received, reloads>>

\* socketConnection.on('disconnect')
onDisconnect ==
  /\ user # NoUser
  /\ isConnected
  /\ gestures < MaxEvents
  /\ gestures' = gestures + 1
  /\ isConnected' = FALSE
  /\ last' = Step("disconnect", NoP, NoH)
  /\ UNCHANGED <<relayVars, renderVars>>
  /\ UNCHANGED <<user, needsSync, isSyncing, localHighlights, highlightedWords,
                 selectedHighlight, storage, nextId, loadState, persists,
                 deletes, updates, peer, peerSaves, received, reloads>>

\* socketConnection.on('connect_error'): an attempt to connect has failed
onConnectError ==
  /\ user # NoUser
  /\ ~isConnected
  /\ gestures < MaxEvents
  /\ gestures' = gestures + 1
  /\ isConnected' = FALSE
  /\ last' = Step("connectError", NoP, NoH)
  /\ UNCHANGED <<relayVars, renderVars>>
  /\ UNCHANGED <<user, needsSync, isSyncing, localHighlights, highlightedWords,
                 selectedHighlight, storage, nextId, loadState, persists,
                 deletes, updates, peer, peerSaves, received, reloads>>

\* ------------------------------------------------- receipt of a remote event
\* the selections made in other sessions while this one is connected: verse,
\* indices at mouse down and mouse up, selected colour, signed-in user
PeerSelections ==
  { <<"V1", 10, 5, "#C5E1A5", Uid>>,
    <<"V1", 2, 8, "#C5E1A5", OtherUid>>,
    <<"V1", 5, 5, "#C5E1A5", OtherUid>> }

\* the highlight events those sessions send and the relay forwards
RemoteEvents ==
  { Payload(Hl(NoId, sel[1], Min(sel[2], sel[3]), Max(sel[2], sel[3]),
               sel[4], sel[5])) :
      sel \in {x \in PeerSelections :
                 ValidRange(Min(x[2], x[3]), Max(x[2], x[3]))} }

\* a comparison that takes no account of the owner
SameEventAnyUser(h, data) ==
  /\ h.verseId = data.verseId
  /\ h.startIndex = data.startIndex
  /\ h.endIndex = data.endIndex

SameEvent(h, data) ==
  /\ h.verseId = data.verseId
  /\ h.startIndex = data.startIndex
  /\ h.endIndex = data.endIndex
  /\ h.userId = data.userId

\* a handler that appends whatever it receives
ReceiptAlwaysAppends(lh, hw, data) ==
  LET incoming == Hl(NoId, data.verseId, data.startIndex, data.endIndex,
                     data.color, data.userId)
      hw2 == Append(hw, incoming)
  IN [hw |-> hw2, lh |-> RegroupEffect(lh, hw2), dup |-> FALSE]

\* the two state updates of socketConnection.on('highlight') on the lists hw
\* and lh, and the regrouping effect when highlightedWords has changed
Receipt(lh, hw, data) ==
  LET incoming == Hl(NoId, data.verseId, data.startIndex, data.endIndex,
                     data.color, data.userId)
      existsHw == \E h \in Range(hw) : SameEvent(h, data)
      existsLh == \E h \in Range(lh[data.verseId]) : SameEvent(h, data)
      hw2 == IF existsHw THEN hw ELSE Append(hw, incoming)
      lh2 == IF existsLh THEN lh
             ELSE [lh EXCEPT ![data.verseId] = Append(@, incoming)]
  IN [hw |-> hw2,
      lh |-> IF existsHw THEN lh2 ELSE RegroupEffect(lh2, hw2),
      dup |-> existsHw]

\* a handler that also writes what it receives to the store
onHighlightPersists(data) ==
  /\ user # NoUser
  /\ isConnected
  /\ LET r == Receipt(localHighlights, highlightedWords, data)
     IN /\ Len(r.hw) <= MaxLocal
        /\ highlightedWords' = r.hw
        /\ localHighlights' = r.lh
        /\ last' = Step(IF r.dup THEN "recvDup" ELSE "recv", NoP,
                        Hl(NoId, data.verseId, data.startIndex, data.endIndex,
                           data.color, data.userId))
  /\ storage' = storage \cup
       {Hl(MaxIds + 1, data.verseId, data.startIndex, data.endIndex,
           data.color, data.userId)}
  /\ received' = received \cup {data}
  /\ gestures < MaxEvents
  /\ gestures' = gestures + 1
  /\ UNCHANGED <<relayVars, renderVars>>
  /\ UNCHANGED <<user, needsSync, isSyncing, selectedHighlight, nextId,
                 loadState, persists, deletes, updates, peer, peerSaves,
                 isConnected, reloads>>

\* socketConnection.on('highlight')
onHighlight(data) ==
  /\ user # NoUser
  /\ isConnected
  /\ LET r == Receipt(localHighlights, highlightedWords, data)
     IN /\ Len(r.hw) <= MaxLocal
        /\ highlightedWords' = r.hw
        /\ localHighlights' = r.lh
        /\ last' = Step(IF r.dup THEN "recvDup" ELSE "recv", NoP,
                        Hl(NoId, data.verseId, data.startIndex, data.endIndex,
                           data.color, data.userId))
  /\ received' = received \cup {data}
  /\ gestures < MaxEvents
  /\ gestures' = gestures + 1
  /\ UNCHANGED <<relayVars, renderVars>>
  /\ UNCHANGED <<user, needsSync, isSyncing, selectedHighlight, storage, nextId,
                 loadState, persists, deletes, updates, peer, peerSaves,
                 isConnected, reloads>>

\* ------------------------------------------- the same user's other session
\* what the other session holds locally when it saves
PeerHighlights == << Hl(NoId, "V1", 5, 10, "#C5E1A5", Uid) >>

\* the other session's saveHighlights up to its await of batch.commit()
PeerSave ==
  /\ peer = NoP
  /\ peerSaves < MaxPeerSaves
  /\ nextId + Len(PeerHighlights) - 1 <= MaxIds
  /\ peer' = [kind |-> "peer", pc |-> "commit", all |-> PeerHighlights,
              existing |-> Ids(UserDocs(storage, Uid)),
              ids |-> [k \in 1..Len(PeerHighlights) |-> nextId + k - 1],
              uid |-> Uid, origin |-> NoH]
  /\ nextId' = nextId + Len(PeerHighlights)
  /\ peerSaves' = peerSaves + 1
  /\ gestures < MaxEvents
  /\ gestures' = gestures + 1
  /\ last' = Step("peerSave", NoP, NoH)
  /\ UNCHANGED <<isConnected, received, reloads>>
  /\ UNCHANGED <<relayVars, renderVars>>
  /\ UNCHANGED <<user, needsSync, isSyncing, localHighlights, highlightedWords,
                 selectedHighlight, storage, loadState, persists, deletes,
                 updates>>

\* the other session's batch commits
PeerCommit ==
  /\ peer # NoP
  /\ storage' = Committed(storage, peer)
  /\ peer' = NoP
  /\ last' = Step("peerCommit", NoP, NoH)
  /\ UNCHANGED <<isConnected, received, reloads>>
  /\ UNCHANGED <<relayVars, renderVars>>
  /\ UNCHANGED <<user, needsSync, isSyncing, localHighlights, highlightedWords,
                 selectedHighlight, nextId, loadState, persists, deletes,
                 updates, peerSaves, gestures>>

Next ==
  \/ SignIn
  \/ LoadOk
  \/ LoadFail
  \/ Reload
  \/ \E sel \in Selections : handleMouseUp(sel[1], sel[2], sel[3])
  \/ navbarSaveHighlights
  \/ \E i \in 1..Len(persists) : PersistReadOk(i)
  \/ \E i \in 1..Len(persists) : PersistFail(i)
  \/ \E i \in 1..Len(persists) : PersistCommitOk(i)
  \/ \E h \in Range(highlightedWords) : deleteHighlight(h)
  \/ \E i \in 1..Len(deletes) : DeleteDocOk(i)
  \/ \E i \in 1..Len(deletes) : DeleteDocFail(i)
  \/ \E h \in Range(highlightedWords) : handleColorPickerClick(h)
  \/ \E c \in Colors : updateHighlightColor(c)
  \/ closePopup
  \/ \E i \in 1..Len(updates) : UpdateDocOk(i)
  \/ \E i \in 1..Len(updates) : UpdateDocFail(i)
  \/ onConnect
  \/ onDisconnect
  \/ onConnectError
  \/ \E data \in RemoteEvents : onHighlight(data)
  \/ PeerSave
  \/ PeerCommit

Spec == Init /\ [][Next]_vars

\* ------------------------------------------- sequences of local creations
\* the session after sign-in and a load from an empty store, with the channel
\* up or not
InitUpsert ==
  /\ user = Uid
  /\ needsSync = FALSE
  /\ isSyncing = FALSE
  /\ localHighlights = EmptyMap
  /\ highlightedWords = <<>>
  /\ selectedHighlight = NoH
  /\ storage = {}
  /\ nextId = 3
  /\ loadState = "done"
  /\ persists = <<>>
  /\ deletes = <<>>
  /\ updates = <<>>
  /\ peer = NoP
  /\ peerSaves = 0
  /\ gestures = 0
  /\ isConnected \in BOOLEAN
  /\ received = {}
  /\ reloads = 0
  /\ last = Step("loadOk", NoP, NoH)
  /\ RelayStart
  /\ NothingRendered

NextUpsert ==
  \E v \in Verses, a \in Positions, b \in Positions : handleMouseUp(v, a, b)

SpecUpsert == InitUpsert /\ [][NextUpsert]_vars

\* ------------------------------------------ edits of a bucket shared with U2
\* the user's own highlight of [2,8) in V1 and the one received from U2
Own == Hl(NoId, "V1", 2, 8, selectedColor, Uid)
Theirs == Hl(NoId, "V1", 2, 8, "#C5E1A5", OtherUid)

\* the colours of the popup: those of Colors and the third of the palette
PopupColors == Colors \cup {"#90CAF9"}

\* the session after sign-in, a load from an empty store, the selection of
\* [2,8) in V1 and, with the channel up, the receipt of U2's highlight of the
\* same range: the state Spec is in after SignIn, LoadOk, handleMouseUp,
\* onConnect and onHighlight
InitEdit ==
  /\ user = Uid
  /\ needsSync = TRUE
  /\ isSyncing = FALSE
  /\ localHighlights = Group(<<Own, Theirs>>)
  /\ highlightedWords = <<Own, Theirs>>
  /\ selectedHighlight = NoH
  /\ storage = {}
  /\ nextId = 3
  /\ loadState = "done"
  /\ persists = <<>>
  /\ deletes = <<>>
  /\ updates = <<>>
  /\ peer = NoP
  /\ peerSaves = 0
  /\ gestures = 0
  /\ isConnected = TRUE
  /\ received = {Payload(Theirs)}
  /\ reloads = 0
  /\ last = Step("recv", NoP, Theirs)
  /\ RelayStart
  /\ NothingRendered

NextEdit ==
  \/ \E h \in Range(highlightedWords) : handleColorPickerClick(h)
  \/ \E c \in PopupColors : updateHighlightColor(c)
  \/ closePopup
  \/ \E i \in 1..Len(updates) : UpdateDocOk(i)
  \/ \E i \in 1..Len(updates) : UpdateDocFail(i)
  \/ \E h \in Range(highlightedWords) : deleteHighlight(h)
  \/ \E i \in 1..Len(deletes) : DeleteDocOk(i)
  \/ \E i \in 1..Len(deletes) : DeleteDocFail(i)
  \/ \E i \in 1..Len(persists) : PersistReadOk(i)
  \/ \E i \in 1..Len(persists) : PersistFail(i)
  \/ \E i \in 1..Len(persists) : PersistCommitOk(i)

SpecEdit == InitEdit /\ [][NextEdit]_vars

\* ------------------------------------------ leaving the reader and coming back
\* the user follows a Navbar link to another page and the link back to
\* /scriptures: the layout with HighlightProvider and Navbar stays mounted,
\* ScriptureReader is unmounted (its socket is disconnected by the effect's
\* cleanup) and mounted again with the values useState gives its own state,
\* and its mount effect calls loadHighlights.  Taken when no call of the
\* reader is suspended.
Remount ==
  /\ user # NoUser
  /\ loadState # "pending"
  /\ Len(deletes) = 0 /\ Len(updates) = 0
  /\ \A i \in 1..Len(persists) : persists[i].kind = "navbar"
  /\ gestures < MaxEvents
  /\ gestures' = gestures + 1
  /\ highlightedWords' = <<>>
  /\ selectedHighlight' = NoH
  /\ isConnected' = FALSE
  /\ loadState' = "pending"
  /\ last' = Step("remount", NoP, NoH)
  /\ UNCHANGED <<relayVars, renderVars>>
  /\ UNCHANGED <<user, needsSync, isSyncing, localHighlights, storage, nextId,
                 persists, deletes, updates, peer, peerSaves, received,
                 reloads>>

\* the session after sign-in, a load from an empty store and one new highlight
InitNavigate ==
  /\ user = Uid
  /\ needsSync = TRUE
  /\ isSyncing = FALSE
  /\ localHighlights = Group(<<Own>>)
  /\ highlightedWords = <<Own>>
  /\ selectedHighlight = NoH
  /\ storage = {}
  /\ nextId = 3
  /\ loadState = "done"
  /\ persists = <<>>
  /\ deletes = <<>>
  /\ updates = <<>>
  /\ peer = NoP
  /\ peerSaves = 0
  /\ gestures = 0
  /\ isConnected = FALSE
  /\ received = {}
  /\ reloads = 0
  /\ last = Step("upsert", NoP, Own)
  /\ RelayStart
  /\ NothingRendered

NextNavigate ==
  \/ Remount
  \/ LoadOk
  \/ LoadFail
  \/ \E sel \in Selections : handleMouseUp(sel[1], sel[2], sel[3])
  \/ navbarSaveHighlights
  \/ \E i \in 1..Len(persists) : PersistReadOk(i)
  \/ \E i \in 1..Len(persists) : PersistFail(i)
  \/ \E i \in 1..Len(persists) : PersistCommitOk(i)

SpecNavigate == InitNavigate /\ [][NextNavigate]_vars

\* ------------------------------------------------------------- the relay
\* the user ids clients send with 'auth' and the highlight events they send
RelayUsers == {Uid, OtherUid}
RelayEvents == RemoteEvents

\* io.on('connection'): a client's socket connects
connection(s) ==
  /\ s \in SocketIds \ sockets
  /\ sockets' = sockets \cup {s}
  /\ inbox' = [inbox EXCEPT ![s] = <<>>]
  /\ lastRelay' = RelayStep("connection", s, NoData)
  /\ UNCHANGED connectedUsers
  /\ UNCHANGED <<clientVars, renderVars>>

\* socket.on('auth'): connectedUsers.set(socket.id, userId)
auth(s, userId) ==
  /\ s \in sockets
  /\ connectedUsers' =
       [t \in DOMAIN connectedUsers \cup {s} |->
          IF t = s THEN userId ELSE connectedUsers[t]]
  /\ lastRelay' = RelayStep("auth", s, NoData)
  /\ UNCHANGED <<sockets, inbox>>
  /\ UNCHANGED <<clientVars, renderVars>>

\* an emit to every connected socket, the sender included
BroadcastToAll(s) == sockets

\* socket.broadcast: every connected socket but the sender's
Broadcast(s) == sockets \ {s}

\* socket.on('highlight'): socket.broadcast.emit('highlight', highlightData)
highlight(s, highlightData) ==
  /\ s \in sockets
  /\ \A t \in Broadcast(s) : Len(inbox[t]) < MaxRelayed
  /\ inbox' = [t \in SocketIds |->
                 IF t \in Broadcast(s) THEN Append(inbox[t], highlightData)
                 ELSE inbox[t]]
  /\ lastRelay' = RelayStep("highlight", s, highlightData)
  /\ UNCHANGED <<sockets, connectedUsers>>
  /\ UNCHANGED <<clientVars, renderVars>>

\* socket.on('disconnect'): the socket's entry of connectedUsers is deleted;
\* what was emitted to the socket is gone with it
disconnect(s) ==
  /\ s \in sockets
  /\ sockets' = sockets \ {s}
  /\ connectedUsers' =
       [t \in DOMAIN connectedUsers \ {s} |-> connectedUsers[t]]
  /\ inbox' = [inbox EXCEPT ![s] = <<>>]
  /\ lastRelay' = RelayStep("disconnect", s, NoData)
  /\ UNCHANGED <<clientVars, renderVars>>

NextRelay ==
  \/ \E s \in SocketIds : connection(s)
  \/ \E s \in SocketIds, u \in RelayUsers : auth(s, u)
  \/ \E s \in SocketIds, d \in RelayEvents : highlight(s, d)
  \/ \E s \in SocketIds : disconnect(s)

\* the client has not started and the store is empty
InitRelay == Init /\ storage = {}

SpecRelay == InitRelay /\ [][NextRelay]_vars

\* ---------------------------------------------------------- renderVerseText
\* the lengths of the tokens verse.text.split(/(\s+)/) gives, and the ranges
\* of the highlights of the verse rendered
WordLengths == 0..3
RenderRanges ==
  {r \in (0..(2 * MaxWords)) \X (0..(2 * MaxWords)) : ValidRange(r[1], r[2])}

\* a predicate without the test for a token that contains the highlight
RendererCoversEdges(startIndex, endIndex, h) ==
  \/ startIndex >= h.startIndex /\ endIndex <= h.endIndex
  \/ startIndex >= h.startIndex /\ startIndex < h.endIndex
  \/ endIndex > h.startIndex /\ endIndex <= h.endIndex

\* the predicate of highlightRanges.find
RendererCovers(startIndex, endIndex, h) ==
  \/ startIndex >= h.startIndex /\ endIndex <= h.endIndex
  \/ startIndex >= h.startIndex /\ startIndex < h.endIndex
  \/ endIndex > h.startIndex /\ endIndex <= h.endIndex
  \/ startIndex <= h.startIndex /\ endIndex >= h.endIndex

\* the highlights of the verse; the lists rendered here hold one highlight,
\* which the sort leaves where it is
highlightRanges(verseId) ==
  SelectSeq(highlightedWords, LAMBDA h : h.verseId = verseId)

\* Array.prototype.find: the first element the predicate accepts, or none
Find(hs, startIndex, endIndex) ==
  LET hits == SelectSeq(hs, LAMBDA h : RendererCovers(startIndex, endIndex, h))
  IN IF Len(hits) > 0 THEN hits[1] ELSE NoH

\* the session with one unsaved highlight in V1, about to render V1
InitRender ==
  /\ user = Uid
  /\ needsSync = TRUE
  /\ isSyncing = FALSE
  /\ \E r \in RenderRanges :
       highlightedWords = <<Hl(NoId, "V1", r[1], r[2], selectedColor, Uid)>>
  /\ localHighlights = Group(highlightedWords)
  /\ selectedHighlight = NoH
  /\ storage = {}
  /\ nextId = 3
  /\ loadState = "done"
  /\ persists = <<>>
  /\ deletes = <<>>
  /\ updates = <<>>
  /\ peer = NoP
  /\ peerSaves = 0
  /\ gestures = 1
  /\ isConnected = FALSE
  /\ received = {}
  /\ reloads = 0
  /\ last = Step("upsert", NoP, highlightedWords[1])
  /\ RelayStart
  /\ words \in [1..MaxWords -> WordLengths]
  /\ currentPosition = 0
  /\ shown = <<>>

\* one iteration of words.map in renderVerseText
renderWord ==
  /\ Len(shown) < Len(words)
  /\ LET word == words[Len(shown) + 1]
         startIndex == currentPosition
         endIndex == startIndex + word
         found == Find(highlightRanges("V1"), startIndex, endIndex)
     IN /\ currentPosition' = endIndex
        /\ shown' = Append(shown, [startIndex |-> startIndex,
                                   endIndex |-> endIndex,
                                   highlight |-> found])
  /\ UNCHANGED words
  /\ UNCHANGED <<clientVars, relayVars>>

SpecRender == InitRender /\ [][renderWord]_vars

\* ================================================================== claims
\* the overlap of two highlights as the data model defines it
Overlap(a, b) == a.startIndex < b.endIndex /\ a.endIndex > b.startIndex

\* overlaps(h, start, end) of the range model
Overlaps(h, start, end) == h.startIndex < end /\ h.endIndex > start

\* the user's persisted highlights and the local highlights, by content
StoredContent == {Content(d) : d \in UserDocs(storage, Uid)}
LocalContent == {Content(h) : h \in Range(Flat(localHighlights))}

\* C1: after every upsert of a sequence of upserts, no two highlights of a
\* verse's bucket overlap.
C1_NoSelfOverlap ==
  \A v \in Verses : \A i, j \in 1..Len(localHighlights[v]) :
     i # j => ~Overlap(localHighlights[v][i], localHighlights[v][j])

\* C2: an upsert removes from the verse's bucket every highlight that overlaps
\* the new range and appends the new highlight; with [2,8) in the bucket an
\* upsert of [5,10) leaves exactly [5,10).
C2_ReplaceOnOverlap ==
  [][last'.op = "upsert" =>
       LET n == last'.h
       IN localHighlights'[n.verseId] =
            SelectSeq(localHighlights[n.verseId],
                      LAMBDA h : ~Overlaps(h, n.startIndex, n.endIndex))
            \o <<n>>]_vars

\* C3: at most one saveHighlights call is in flight at any time, so two
\* invocations never both reach the batched write.
C3_AtMostOnePersist == Len(persists) <= 1

\* C4: when a batch commits, the persisted highlights of the user are exactly
\* the highlights the call took from the local store, under the fresh ids.
C4_CommitReplacesAll ==
  [][\A i \in 1..Len(persists) :
       PersistCommitOk(i) => UserDocs(storage', Uid) = NewDocs(persists[i])]_vars

\* C5: a saveHighlights call that fails changes neither needsSync nor the
\* local store nor any persisted document, in any of its steps, and leaves
\* isSyncing false.
C5_FailureChangesNothing ==
  [][/\ (navbarSaveHighlights \/ \E i \in 1..Len(persists) : PersistReadOk(i))
          => /\ needsSync' = needsSync
             /\ localHighlights' = localHighlights
             /\ highlightedWords' = highlightedWords
             /\ storage' = storage
     /\ last'.op \in {"readFail", "commitFail"}
          => /\ needsSync' = needsSync
             /\ isSyncing' = FALSE
             /\ localHighlights' = localHighlights
             /\ highlightedWords' = highlightedWords
             /\ storage' = storage
             /\ Len(persists') = Len(persists) - 1]_vars

\* C5 witness: a batched write has failed while the store was dirty.
C5_FailedWrite ==
  /\ last.op = "commitFail"
  /\ needsSync
  /\ Len(Flat(localHighlights)) > 0

\* C6: after a successful batch, needsSync is false and every local highlight
\* carries an id the batch assigned, from either entry point.
C6_IdsAfterCommit ==
  [][\A i \in 1..Len(persists) :
       PersistCommitOk(i) =>
         /\ needsSync' = FALSE
         /\ \A h \in Range(Flat(localHighlights')) :
              h.id \in Range(persists[i].ids)]_vars

\* C7: a saveHighlights call made with no local highlights contacts storage
\* neither for reading nor for writing, and leaves needsSync and isSyncing
\* false, from either entry point.
C7_EmptyShortCircuit ==
  [][/\ Len(persists') > Len(persists)
          => Len(persists'[Len(persists')].all) > 0
     /\ (navbarSaveHighlights /\ Len(Flat(localHighlights)) = 0)
          => (~needsSync' /\ ~isSyncing')]_vars

\* C8: isSyncing is true only while a saveHighlights call is in flight, and
\* every call that finishes leaves it false.
C8_SyncingOnlyInFlight ==
  /\ [](Len(persists) = 0 => ~isSyncing)
  /\ [][Len(persists') < Len(persists) => ~isSyncing']_vars

\* C8 witness: a call has finished, none is in flight and the flag is down.
C8_PersistFinished ==
  /\ last.op \in {"readFail", "commitFail", "commitOk"}
  /\ Len(persists) = 0
  /\ ~isSyncing

\* C9: once the session has loaded, whenever needsSync is false and no
\* saveHighlights call is in flight, the persisted highlights of the user are
\* exactly the local highlights.
C9_CleanMeansStored ==
  (loadState = "done" /\ ~needsSync /\ Len(persists) = 0)
    => StoredContent = LocalContent

\* C10: once the saveHighlights call started by deleting h has committed, h is
\* in neither the local store nor the user's persisted highlights.
C10_DeletedStaysDeleted ==
  (last.op = "commitOk" /\ last.kind = "reader" /\ last.h # NoH)
    => /\ \A g \in Range(localHighlights[last.h.verseId]) : ~SameRange(g, last.h)
       /\ \A d \in UserDocs(storage, Uid) :
            d.verseId = last.h.verseId => ~SameRange(d, last.h)

\* the entries of a verse's bucket that a highlight event names
Matching(lh, data) ==
  {k \in 1..Len(lh[data.verseId]) : SameEvent(lh[data.verseId][k], data)}

\* C11: receiving a highlight event a second time changes nothing: the lists
\* after two receipts are the lists after one, an event that is already
\* present is dropped, and after a receipt the verse's bucket holds exactly
\* one entry with the event's verseId, startIndex, endIndex and userId.
C11_IdempotentReceipt ==
  [][last'.op \in {"recv", "recvDup"} =>
       LET data == Payload(last'.h)
           once == Receipt(localHighlights, highlightedWords, data)
           twice == Receipt(once.lh, once.hw, data)
       IN /\ localHighlights' = once.lh
          /\ highlightedWords' = once.hw
          /\ twice.lh = once.lh
          /\ twice.hw = once.hw
          /\ last'.op = "recvDup" =>
               UNCHANGED <<localHighlights, highlightedWords>>
          /\ Cardinality(Matching(localHighlights', data)) = 1]_vars

\* C11 witness: an event has arrived a second time and its bucket holds it once.
C11_ReceivedTwice ==
  /\ last.op = "recvDup"
  /\ Cardinality(Matching(localHighlights, Payload(last.h))) = 1

\* C12: a saveHighlights call made while no user is signed in or while
\* isSyncing is true does nothing: no call is left waiting on the store, and
\* needsSync, isSyncing and both highlight lists stay as they are.  The calls
\* are the ones deleteHighlight makes, directly or after deleteDoc; the
\* Navbar's button cannot be pressed in either condition.
C12_GuardedPersistIsNoOp ==
  [][(user = NoUser \/ isSyncing) =>
       /\ (\E i \in 1..Len(deletes) : DeleteDocOk(i))
            => /\ persists' = persists
               /\ needsSync' = needsSync
               /\ isSyncing' = isSyncing
               /\ localHighlights' = localHighlights
               /\ highlightedWords' = highlightedWords
       /\ (last'.op = "delete" /\ last'.h.id = NoId)
            => /\ persists' = persists
               /\ isSyncing' = isSyncing]_vars

\* C13: no step changes the userId of a highlight of the local store: a
\* highlight that a step leaves in a verse's bucket, recognised by its range,
\* has the userId it had before the step.  The highlight a selection or a
\* receipt creates in that step is new and is not compared.
C13_UserIdNeverChanges ==
  [][\A v \in Verses : \A g \in Range(localHighlights'[v]) :
       (/\ ~(last'.op \in {"upsert", "recv"} /\ g = last'.h)
        /\ \E h \in Range(localHighlights[v]) : SameRange(h, g))
       => \E h \in Range(localHighlights[v]) :
            SameRange(h, g) /\ h.userId = g.userId]_vars

\* C14: a mouse up on a selection whose two ends coincide creates nothing and
\* changes nothing: both highlight lists, needsSync, isSyncing, the store and
\* the suspended calls are as before, and nothing is sent on the channel.
C14_EmptySelectionNoOp ==
  [][\A v \in Verses, a \in Positions :
       handleMouseUp(v, a, a)
       => /\ UNCHANGED <<localHighlights, highlightedWords, needsSync,
                         isSyncing, storage, persists, deletes, updates>>
          /\ last'.emitted = <<>>]_vars

\* C14 witness: with the channel up and [2,5) the only highlight of the
\* verse, the selection [5,5) has just been made and the bucket is as it was.
C14_EmptySelectionMade ==
  /\ last.op = "noSelection"
  /\ last.h.verseId = "V1" /\ last.h.startIndex = 5 /\ last.h.endIndex = 5
  /\ isConnected
  /\ Len(localHighlights["V1"]) = 1
  /\ localHighlights["V1"][1].startIndex = 2
  /\ localHighlights["V1"][1].endIndex = 5

\* C15: before and after every step every highlight of the local store has
\* startIndex < endIndex, whether a selection, the load or a received event
\* put it there; and a mouse up on a selection from a to b with a # b creates
\* the highlight from the smaller index to the larger one.
C15_RangesNonEmpty ==
  [][/\ \A v \in Verses :
          \A h \in Range(localHighlights[v]) \cup Range(localHighlights'[v]) :
             h.startIndex < h.endIndex
     /\ \A v \in Verses, a \in Positions, b \in Positions :
          (a # b /\ last'.op \in {"upsert", "noSelection"}
                 /\ handleMouseUp(v, a, b))
          => /\ last'.op = "upsert"
             /\ last'.h.startIndex = (IF a < b THEN a ELSE b)
             /\ last'.h.endIndex = (IF a < b THEN b ELSE a)
             /\ last'.h \in Range(localHighlights'[v])]_vars

\* C15 witness: a selection dragged from 10 back to 5 has created [5,10)
\* beside a highlight received from the other user.
C15_ReversedSelection ==
  /\ last.op = "upsert"
  /\ last.h.startIndex = 5 /\ last.h.endIndex = 10
  /\ last.h \in Range(localHighlights["V1"])
  /\ \E g \in Range(localHighlights["V1"]) : g.userId = OtherUid

\* C16: the step of a local edit - the creation of a highlight, a delete, a
\* recolouring - ends with needsSync true, whatever it was and whether or not
\* the highlight has an id, and the store is untouched in that step: the
\* edit's own storage call, if any, is still to resolve.
C16_EditMarksDirty ==
  [][last'.op \in {"upsert", "delete", "recolor"}
       => needsSync' /\ storage' = storage]_vars

\* C16 witness: a persisted highlight has been deleted while needsSync was
\* false; needsSync is true and deleteDoc has not resolved.
C16_DirtyBeforeDeleteDoc ==
  /\ last.op = "delete"
  /\ last.h.id # NoId
  /\ needsSync
  /\ Len(deletes) = 1
  /\ \E d \in storage : d.id = last.h.id

ReceiverNeverSaved == nextId = 3 + peerSaves * Len(PeerHighlights)

\* C18: the receipt of a highlight event leaves the store, needsSync,
\* isSyncing and the suspended calls as they are; and when a load completes
\* in a session that has saved nothing, while the other session has saved
\* nothing either, no highlight received so far is in the local store.
C18_ChannelDoesNotPersist ==
  [][/\ last'.op \in {"recv", "recvDup"}
          => UNCHANGED <<storage, nextId, needsSync, isSyncing, persists,
                         deletes, updates>>
     /\ (last'.op = "loadOk" /\ ReceiverNeverSaved' /\ peerSaves' = 0)
          => \A e \in received' : Matching(localHighlights', e) = {}]_vars

\* C18 witness: the socket connected and delivered the other session's
\* highlight, then the page was loaded again (the third event, which leaves
\* the channel down) and its load has completed; nobody has saved, and the
\* highlight is not in the local store.
C18_ReceivedGoneAfterLoad ==
  /\ last.op = "loadOk"
  /\ reloads = 1
  /\ gestures = 3
  /\ ~isConnected
  /\ ReceiverNeverSaved
  /\ peerSaves = 0
  /\ \E e \in received : e.userId = Uid /\ Matching(localHighlights, e) = {}

\* the highlight events among the events a step sent
HighlightEvents(em) == SelectSeq(em, LAMBDA m : m.event = "highlight")

\* C19: a step sends a highlight event exactly when it creates a highlight
\* while isConnected is true; it then sends one event, whose payload is the
\* new highlight's verseId, startIndex, endIndex, color and userId and
\* nothing else.  No other step - a delete, a recolouring, a save, a receipt -
\* sends a highlight event.
C19_EmitOnCreation ==
  [][HighlightEvents(last'.emitted) =
       (IF last'.op = "upsert" /\ isConnected
        THEN << [event |-> "highlight",
                 data |-> [verseId |-> last'.h.verseId,
                           startIndex |-> last'.h.startIndex,
                           endIndex |-> last'.h.endIndex,
                           color |-> last'.h.color,
                           userId |-> last'.h.userId]] >>
        ELSE << >>)]_vars

\* C19 witness: a highlight has been created with the channel up and one
\* event has been sent for it.
C19_CreatedAndSent ==
  /\ last.op = "upsert"
  /\ isConnected
  /\ Len(HighlightEvents(last.emitted)) = 1
  /\ last.h \in Range(localHighlights[last.h.verseId])

\* C20: a drop of the connection or a failed attempt to connect leaves
\* isConnected false and changes nothing else of the session: needsSync,
\* isSyncing, both highlight lists, the store and the suspended calls are as
\* before.  A highlight created while isConnected is false is in its verse's
\* bucket afterwards, needsSync is true and nothing is sent.
C20_DropChangesOnlyStatus ==
  [][/\ (onDisconnect \/ onConnectError)
          => /\ ~isConnected'
             /\ UNCHANGED <<needsSync, isSyncing, localHighlights,
                            highlightedWords, selectedHighlight, storage,
                            persists, deletes, updates>>
     /\ (last'.op = "upsert" /\ ~isConnected)
          => /\ last'.h \in Range(localHighlights'[last'.h.verseId])
             /\ needsSync'
             /\ last'.emitted = << >>]_vars

\* C20 witness: the connection has dropped while the local store held an
\* unsaved highlight; the highlight is still there and needsSync is true.
C20_DroppedWhileDirty ==
  /\ last.op = "disconnect"
  /\ ~isConnected
  /\ needsSync
  /\ \E h \in Range(Flat(localHighlights)) : h.id = NoId /\ h.userId = Uid

\* the positions of a bucket at which two versions of it differ
Changed(b, b2) == {k \in 1..Len(b) : b2[k] # b[k]}

\* C21: a click on a colour of the popup changes, in the bucket of the
\* selected highlight, the colour of the one highlight that has its range and
\* nothing else: the bucket keeps its length, no entry changes in anything
\* but its colour, at most one entry changes, the entry with the range has
\* the new colour, and every other bucket is as it was.  The change is made
\* for a highlight with or without an id, and a failed updateDoc leaves both
\* highlight lists as they are.
C21_RecolorOnlyTarget ==
  [][/\ \A c \in PopupColors :
          updateHighlightColor(c) =>
            LET h == selectedHighlight
                b == localHighlights[h.verseId]
                b2 == localHighlights'[h.verseId]
            IN /\ Len(b2) = Len(b)
               /\ \A k \in 1..Len(b) :
                    /\ b2[k] = [b[k] EXCEPT !.color = b2[k].color]
                    /\ SameRange(b[k], h) => b2[k].color = c
                    /\ b2[k] # b[k] => SameRange(b[k], h)
               /\ Cardinality(Changed(b, b2)) <= 1
               /\ \A v \in Verses \ {h.verseId} :
                    localHighlights'[v] = localHighlights[v]
     /\ last'.op = "updateDocFail"
          => UNCHANGED <<localHighlights, highlightedWords>>]_vars

\* C22: a click on the delete button of a highlight removes from its verse's
\* bucket what has exactly its startIndex and endIndex, whether or not it has
\* an id, keeps every highlight of another range in place and in order, and
\* leaves every other bucket as it was.
C22_RemoveByRange ==
  [][last'.op = "delete" =>
       LET h == last'.h
           b == localHighlights[h.verseId]
       IN /\ localHighlights'[h.verseId] =
               SelectSeq(b, LAMBDA g : g.startIndex # h.startIndex
                                        \/ g.endIndex # h.endIndex)
          /\ \A v \in Verses \ {h.verseId} :
               localHighlights'[v] = localHighlights[v]]_vars

\* C22 witness: a highlight that was never saved has been deleted and the
\* highlight of another range in its bucket is still there.
C22_UnsavedRemoved ==
  /\ last.op = "delete"
  /\ last.h.id = NoId
  /\ Len(localHighlights[last.h.verseId]) = 1
  /\ ~SameRange(localHighlights[last.h.verseId][1], last.h)

\* C23: when loadHighlights completes, the map holds exactly the stored
\* documents whose userId is the signed-in user's, each once and with its
\* document id, each in the bucket of its verse; highlightedWords holds the
\* same highlights; nothing else is in the map; needsSync is false.
C23_LoadReplacesMap ==
  last.op = "loadOk" =>
    /\ {h \in storage : h.userId = user} = Range(Flat(localHighlights))
    /\ Len(Flat(localHighlights)) = Cardinality(Range(Flat(localHighlights)))
    /\ \A v \in Verses : \A k \in 1..Len(localHighlights[v]) :
         /\ localHighlights[v][k].verseId = v
         /\ localHighlights[v][k].id # NoId
    /\ Range(highlightedWords) = Range(Flat(localHighlights))
    /\ needsSync = FALSE

\* C23 witness: the load completed after a highlight had been received on
\* this page, with documents of both users in the store.
C23_LoadAfterReceipt ==
  /\ last.op = "loadOk"
  /\ reloads = 0
  /\ received # {}
  /\ \E d \in storage : d.userId = Uid
  /\ \E d \in storage : d.userId = OtherUid

\* C24: when the commit of a saveHighlights call resolves right after a local
\* edit (a new highlight, a deletion or a recolouring) that was applied while
\* the call was awaiting it, the edit is still in the local highlights, and
\* needsSync is true when the local highlights differ from the batch written.
C24_EditDuringSaveKept ==
  [][\A i \in 1..Len(persists) :
       (PersistCommitOk(i) /\ last.op \in {"upsert", "delete", "recolor"}) =>
         LET batch == {Content(h) : h \in Range(persists[i].all)}
         IN /\ LocalContent' = LocalContent
            /\ LocalContent # batch => needsSync']_vars

\* C25: when the relay handles a highlight event, every connected socket other
\* than the sender's is sent exactly that payload, the sender's socket and the
\* sockets not connected are sent nothing, whatever connectedUsers holds, and
\* the relay's own state (its sockets and connectedUsers) is as before.
C25_RelayForwardsToOthers ==
  [][lastRelay'.op = "highlight" =>
       LET s == lastRelay'.socket
           d == lastRelay'.data
       IN /\ \A t \in sockets \ {s} : inbox'[t] = Append(inbox[t], d)
          /\ inbox'[s] = inbox[s]
          /\ \A t \in SocketIds \ sockets : inbox'[t] = inbox[t]
          /\ sockets' = sockets
          /\ connectedUsers' = connectedUsers]_vars

\* C25 witness: a socket that never sent auth has sent a highlight event
\* carrying a user id; a socket registered under another user id and a socket
\* that never sent auth have both been sent it, and the sender has not.
C25_UnauthenticatedForwarded ==
  /\ lastRelay.op = "highlight"
  /\ lastRelay.socket \notin DOMAIN connectedUsers
  /\ inbox[lastRelay.socket] = <<>>
  /\ \E t \in DOMAIN connectedUsers :
       /\ connectedUsers[t] # lastRelay.data.userId
       /\ inbox[t] = <<lastRelay.data>>
  /\ \E t \in sockets \ (DOMAIN connectedUsers \cup {lastRelay.socket}) :
       inbox[t] = <<lastRelay.data>>

\* C26: in every reachable state no two highlights of a verse's bucket have
\* the same startIndex and the same endIndex.
C26_RangeUniqueInBucket ==
  \A v \in Verses :
    \A i, j \in 1..Len(localHighlights[v]) :
      SameRange(localHighlights[v][i], localHighlights[v][j]) => i = j

\* C27: as long as no other session has saved and no remote highlight has
\* arrived, every local highlight that carries an id carries the id of a stored
\* document of the signed-in user with the same verseId, startIndex, endIndex.
C27_IdsNameStoredDocuments ==
  (peerSaves = 0 /\ received = {}) =>
    \A h \in Range(Flat(localHighlights)) :
      h.id # NoId =>
        \E d \in storage :
          /\ d.id = h.id
          /\ d.userId = user
          /\ d.verseId = h.verseId
          /\ d.startIndex = h.startIndex
          /\ d.endIndex = h.endIndex

\* C28: for every non-empty token [startIndex, endIndex) rendered and every
\* highlight h of the verse with h.startIndex < h.endIndex, the predicate of
\* the renderer holds exactly when startIndex < h.endIndex and
\* endIndex > h.startIndex, and the token is shown under a highlight exactly
\* when some highlight of the verse meets it in that sense.
C28_RendererIsIntersection ==
  \A k \in 1..Len(shown) :
    LET t == shown[k]
        hs == highlightRanges("V1")
    IN t.startIndex < t.endIndex =>
         /\ \A i \in 1..Len(hs) :
              hs[i].startIndex < hs[i].endIndex =>
                (RendererCovers(t.startIndex, t.endIndex, hs[i])
                   <=> (t.startIndex < hs[i].endIndex
                        /\ t.endIndex > hs[i].startIndex))
         /\ (t.highlight # NoH) <=>
              \E i \in 1..Len(hs) :
                /\ t.startIndex < hs[i].endIndex
                /\ t.endIndex > hs[i].startIndex

\* C28 witness: a token that begins before a highlight and ends after it has
\* been rendered under that highlight, and a token has been rendered plain.
C28_TokenContainsHighlight ==
  /\ \E k \in 1..Len(shown) :
       /\ shown[k].highlight = highlightedWords[1]
       /\ shown[k].startIndex < shown[k].highlight.startIndex
       /\ shown[k].endIndex > shown[k].highlight.endIndex
  /\ \E k \in 1..Len(shown) :
       /\ shown[k].startIndex < shown[k].endIndex
       /\ shown[k].highlight = NoH

C30_ListAndMapAgree ==
  last.op \in {"loadOk", "upsert", "delete", "recolor", "recv", "commitOk"} =>
    Range(highlightedWords) = Range(Flat(localHighlights))
====
